---- MODULE Spec2Model ----
(***************************************************************************)
(* DocuGen MCP server (src/src/simple-server.ts): the tool handlers        *)
(* CreateDoc, UpdateDoc, DeleteDoc, FormatDoc, ConvertToTable and the      *)
(* ListDocs resource, as a state machine over the calls they make to the   *)
(* Google Docs / Drive clients and the results they return.                *)
(*                                                                         *)
(* A string is a sequence of one-character strings, so that indexOf,       *)
(* split, trim and the separator regular expression are computed, not      *)
(* assumed.  Offsets inside a string are 0-based as in JavaScript.         *)
(***************************************************************************)
EXTENDS Integers, Sequences, FiniteSets, TLC

VARIABLES
    docsClient,       \* TRUE iff the module-level docsClient was assigned
    driveClient,      \* TRUE iff the module-level driveClient was assigned
    pc,               \* position of the handler in flight, "idle" between calls
    tool,             \* the tool of the current (or last) invocation
    args,             \* its arguments
    doc,              \* the document documents.get returned to it
    calls,            \* the calls it made to the external clients, in order
    result,           \* what it returned
    fi,               \* FormatDoc: index of the instruction being processed
    si,               \* FormatDoc: index of the element being scanned
    index,            \* FormatDoc: the search loop's index
    occurrences,      \* FormatDoc: occurrences of the current instruction
    requests,         \* FormatDoc: the requests built so far
    rows,             \* ConvertToTable: the parsed grid
    tableStartIndex,  \* ConvertToTable
    tableEndIndex     \* ConvertToTable

vars == <<docsClient, driveClient, pc, tool, args, doc, calls, result, fi, si,
          index, occurrences, requests, rows, tableStartIndex, tableEndIndex>>

(***************************************************************************)
(* Bounds of the model.                                                    *)
(***************************************************************************)
MaxTableLen == 4      \* longest enumerated tableText
MaxTextLen == 2       \* longest enumerated FormatDoc target
MaxSpanLen == 2       \* longest enumerated text run (before its newline)
MaxOccurrences == 8   \* occurrences the search loop may collect in the model

(***************************************************************************)
(* Strings.                                                                *)
(***************************************************************************)
NL == "\n"

SetMin(S) == CHOOSE m \in S : \A n \in S : m <= n

SetMax(S) == CHOOSE m \in S : \A n \in S : m >= n

\* All strings over the alphabet A of length 0..n.
StringsUpTo(A, n) == UNION { [1..k -> A] : k \in 0..n }

\* The characters String.prototype.trim removes and \s matches.
Whitespace == {" ", NL}

\* String.prototype.trim
Trim(s) ==
    LET keep == { i \in 1..Len(s) : s[i] \notin Whitespace }
    IN  IF keep = {} THEN <<>> ELSE SubSeq(s, SetMin(keep), SetMax(keep))

\* String.prototype.split with a one-character separator: "" splits to [""].
RECURSIVE Split(_, _)
Split(s, sep) ==
    LET at == { i \in 1..Len(s) : s[i] = sep }
    IN  IF at = {} THEN <<s>>
        ELSE <<SubSeq(s, 1, SetMin(at) - 1)>>
             \o Split(SubSeq(s, SetMin(at) + 1, Len(s)), sep)

\* Array.prototype.join with a one-character separator.
RECURSIVE Join(_, _)
Join(parts, sep) ==
    IF parts = <<>> THEN <<>>
    ELSE IF Len(parts) = 1 THEN parts[1]
    ELSE parts[1] \o <<sep>> \o Join(Tail(parts), sep)

\* String.prototype.indexOf(target, from), 0-based, -1 when absent.  The
\* start position is clamped to the string; the empty target is found at the
\* clamped position.
IndexOf(text, target, from) ==
    LET n == Len(text)
        m == Len(target)
        f == IF from < 0 THEN 0 ELSE IF from > n THEN n ELSE from
        at == { i \in f..(n - m) : SubSeq(text, i + 1, i + m) = target }
    IN  IF at = {} THEN -1 ELSE SetMin(at)

\* String.prototype.includes for a one-character needle.
Includes(s, ch) == \E i \in 1..Len(s) : s[i] = ch

(***************************************************************************)
(* formatMarkdownTable: fences each run of lines holding '|'.            *)
(***************************************************************************)
\* The backquote character (the lexer takes no backquote in a string).
Backquote == "bq"

Fence == <<Backquote, Backquote, Backquote>>

RECURSIVE FormatLines(_, _)
FormatLines(lines, inTable) ==
    IF lines = <<>> THEN (IF inTable THEN <<Fence>> ELSE <<>>)
    ELSE LET line == Head(lines)
         IN  IF Includes(line, "|")
             THEN (IF inTable THEN <<line>> ELSE <<Fence, line>>)
                  \o FormatLines(Tail(lines), TRUE)
             ELSE (IF inTable THEN <<Fence, line>> ELSE <<line>>)
                  \o FormatLines(Tail(lines), FALSE)

formatMarkdownTable(text) == Join(FormatLines(Split(text, NL), FALSE), NL)

(***************************************************************************)
(* ConvertToTable: the markdown table parser.                              *)
(***************************************************************************)
\* The character class [\s\-:|] of the separator pattern.
SeparatorClass == Whitespace \cup {"-", ":", "|"}

\* line.match(/^\|?[\s\-:|]+\|/): an optional leading '|', one or more
\* characters of the class, then a '|'.  The pattern is anchored at the start
\* of the line only.
MatchesSeparator(line) ==
    \E p \in {0, 1} :
        /\ p = 1 => (Len(line) >= 1 /\ line[1] = "|")
        /\ \E k \in 1..Len(line) :
               /\ p + k + 1 <= Len(line)
               /\ \A j \in (p + 1)..(p + k) : line[j] \in SeparatorClass
               /\ line[p + k + 1] = "|"

NonEmpty(s) == s # <<>>

\* line.split('|').map(cell => cell.trim()).filter(cell => cell !== '')
Cells(line) ==
    LET pieces == Split(line, "|")
    IN  SelectSeq([i \in 1..Len(pieces) |-> Trim(pieces[i])], NonEmpty)

\* The loop over the lines: a separator line is skipped, any other line
\* with at least one cell is pushed as a row.
RECURSIVE ParseLines(_)
ParseLines(lines) ==
    IF lines = <<>> THEN <<>>
    ELSE LET line == Head(lines)
             rest == ParseLines(Tail(lines))
         IN  IF MatchesSeparator(line) THEN rest
             ELSE IF Len(Cells(line)) > 0 THEN <<Cells(line)>> \o rest
             ELSE rest

\* const lines = tableText.trim().split('\n')
TableLines(tableText) == Split(Trim(tableText), NL)

ParseTable(tableText) == ParseLines(TableLines(tableText))

(***************************************************************************)
(* The requests of the Docs API the handlers build.                        *)
(***************************************************************************)
InsertText(at, text) == [kind |-> "insertText", index |-> at, text |-> text]

DeleteContentRange(from, to) ==
    [kind |-> "deleteContentRange", startIndex |-> from, endIndex |-> to]

InsertTable(nRows, nColumns, at) ==
    [kind |-> "insertTable", rows |-> nRows, columns |-> nColumns, index |-> at]

UpdateTextStyle(from, to, style, mask) ==
    [kind |-> "updateTextStyle", startIndex |-> from, endIndex |-> to,
     textStyle |-> style, fields |-> mask]

UpdateParagraphStyle(from, to, named) ==
    [kind |-> "updateParagraphStyle", startIndex |-> from, endIndex |-> to,
     namedStyleType |-> named, fields |-> <<"namedStyleType">>]

\* A call to an external client as the call log records it.
Call(api, status) == [api |-> api, status |-> status]

BatchUpdate(reqs, status) ==
    [api |-> "documents.batchUpdate", requests |-> reqs, status |-> status]

Outcome(ok) == IF ok THEN "ok" ELSE "failed"

(***************************************************************************)
(* What the handlers return.  A tool's error result carries isError; a     *)
(* success result and every result of the ListDocs resource do not.        *)
(***************************************************************************)
ErrorResult(text) == [text |-> text, isError |-> TRUE]

TextResult(text) == [text |-> text]

NotInitializedCreate == "Google API not initialized. Please check credentials."

NotInitialized == "Google API not initialized."

\* `Error: ${error}` of the catch blocks.
Thrown == "Error: thrown by the external service"

(***************************************************************************)
(* The document documents.get returns: the text runs of the body in        *)
(* document order (paragraphs and their elements flattened), each with its *)
(* absolute startIndex, and the endIndex of the last structural element.   *)
(* An element with content <<>> has no text run (an inline object, one     *)
(* index wide); endIndex 0 stands for a body without content.              *)
(***************************************************************************)
Width(text) == IF text = <<>> THEN 1 ELSE Len(text)

RECURSIVE MkElements(_, _)
MkElements(texts, at) ==
    IF texts = <<>> THEN <<>>
    ELSE <<[startIndex |-> at, content |-> Head(texts)]>>
         \o MkElements(Tail(texts), at + Width(Head(texts)))

MkDocument(texts) ==
    LET elements == MkElements(texts, 1)
        last == elements[Len(elements)]
    IN  [elements |-> elements,
         endIndex |-> IF texts = <<>> THEN 0
                      ELSE last.startIndex + Width(last.content)]

\* doc.data.body?.content?.slice(-1)[0]?.endIndex || 1
BodyEndIndex(d) == IF d.endIndex = 0 THEN 1 ELSE d.endIndex

\* elem.startIndex || 0
StartIndex(elem) == IF elem.startIndex = 0 THEN 0 ELSE elem.startIndex

(***************************************************************************)
(* Inputs: the arguments the schemas accept and the documents the service  *)
(* returns, enumerated up to the bounds and extended with named cases.     *)
(***************************************************************************)
ExampleTable == <<"|", " ", "A", " ", "|", " ", "B", " ", "|", "\n", "|", "-", "-", "-", "|", "-", "-", "-", "|", "\n", "|", " ", "1", " ", "|", " ", "2", " ", "|">>

TwoEqualRows == <<"|", "a", "|", "\n", "|", "a", "|">>

TwoRows == <<"|", "a", "|", "\n", "|", "b", "|">>

EmptyFirstCell == <<"|", " ", "|", " ", "a", " ", "|">>

PaddedRow == <<" ", "|", "a", "|", " ">>

ColonSeparator == <<"|", "a", "|", "\n", "|", ":", "-", "|", "\n", "|", "b", "|">>

Ababab == <<"a", "b", "a", "b", "a", "b">>

Aba == <<"a", "b", "a">>

Intro == <<"I", "n", "t", "r", "o">>

TableTexts ==
    StringsUpTo({"|", "-", "a", NL}, MaxTableLen)
    \cup {ExampleTable, TwoEqualRows, TwoRows, EmptyFirstCell, PaddedRow,
          ColonSeparator}

Texts == StringsUpTo({"a", "b"}, MaxTextLen) \cup {Aba, Intro}

Contents == {<<>>, <<"a">>, <<"a", "\n", "|", "b">>}

\* The text runs of the documents: a body always ends with a newline, and the
\* empty document is the single run "\n".
DocumentTexts ==
    { <<s \o <<NL>>>> : s \in StringsUpTo({"a", "b"}, MaxSpanLen) }
    \cup { <<Ababab \o <<NL>>>>,
           <<<<"a", "b">>, <<"a", NL>>>>,
           <<<<"a">>, <<>>, <<"b", "a", NL>>>>,
           <<Intro \o <<NL>>, <<"a", "b", NL>>>>,
           <<<<"b", NL>>, ExampleTable \o <<NL>>>>,
           <<TwoEqualRows \o <<NL>>>>,
           <<<<"|", "a", "|", NL>>, <<"|", "b", "|", NL>>>>,
           <<TwoRows \o <<NL>>>>,
           <<<<"|", "a", "|", NL>>>>,
           <<<<"a", NL, "|", "a", NL>>>> }

Documents == { MkDocument(t) : t \in DocumentTexts }

DocumentIds == {"doc1"}

Titles == {"title"}

\* The optional fields of a formatting instruction: each is present with a
\* value of its type, or absent.
TextStyles ==
    UNION { [S -> BOOLEAN] : S \in SUBSET {"bold", "italic", "underline"} }

Headings == {<<>>} \cup { [heading |-> h] : h \in 1..3 }

Styles == { t @@ h : t \in TextStyles, h \in Headings }

Instructions == { [text |-> t] @@ s : t \in Texts, s \in Styles }

\* The instructions of the two-instruction lists.
PairedInstructions ==
    { i \in Instructions :
          /\ i.text \in {<<"a">>, <<"b">>, <<>>}
          /\ DOMAIN i \in {{"text"}, {"text", "bold"}, {"text", "heading"}}
          /\ "bold" \in DOMAIN i => i.bold
          /\ "heading" \in DOMAIN i => i.heading = 2 }

FormatLists ==
    {<<>>}
    \cup { <<i>> : i \in Instructions }
    \cup { <<i, j>> : i \in PairedInstructions, j \in PairedInstructions }

(***************************************************************************)
(* initClients: both clients are assigned, or authorize threw and neither  *)
(* is.                                                                     *)
(***************************************************************************)
NoResult == [text |-> "none"]

NoDocument == [elements |-> <<>>, endIndex |-> 0]

NoArgs == [documentId |-> "none"]

\* The request-scoped state before a handler runs.
Fresh ==
    /\ pc = "idle"
    /\ tool = "none"
    /\ args = NoArgs
    /\ doc = NoDocument
    /\ calls = <<>>
    /\ result = NoResult
    /\ fi = 0
    /\ si = 0
    /\ index = -1
    /\ occurrences = <<>>
    /\ requests = <<>>
    /\ rows = <<>>
    /\ tableStartIndex = -1
    /\ tableEndIndex = -1

Init ==
    /\ \E initialized \in BOOLEAN :
           /\ docsClient = initialized
           /\ driveClient = initialized
    /\ Fresh

clients == <<docsClient, driveClient>>

formatLocals == <<fi, si, index, occurrences, requests>>

tableLocals == <<rows, tableStartIndex, tableEndIndex>>

\* A handler that runs to its return in one step.
Return(t, a, d, cs, r) ==
    /\ pc' = "done"
    /\ tool' = t
    /\ args' = a
    /\ doc' = d
    /\ calls' = cs
    /\ result' = r

(***************************************************************************)
(* CreateDoc                                                               *)
(***************************************************************************)
\* if (content): an absent and an empty content are both skipped.
HasContent(a) == "content" \in DOMAIN a /\ a.content # <<>>

CreateDocCalls(a, createOk, batchOk) ==
    <<Call("documents.create", Outcome(createOk))>>
    \o (IF createOk /\ HasContent(a)
        THEN <<BatchUpdate(<<InsertText(1, formatMarkdownTable(a.content))>>,
                           Outcome(batchOk))>>
        ELSE <<>>)

CreateDoc ==
    /\ pc = "idle"
    /\ \E a \in [title : Titles] \cup [title : Titles, content : Contents],
          createOk \in BOOLEAN, batchOk \in BOOLEAN :
           IF ~docsClient
           THEN Return("CreateDoc", a, NoDocument, <<>>,
                       ErrorResult(NotInitializedCreate))
           ELSE Return("CreateDoc", a, NoDocument,
                       CreateDocCalls(a, createOk, batchOk),
                       IF createOk /\ (HasContent(a) => batchOk)
                       THEN TextResult("Created document")
                       ELSE ErrorResult(Thrown))
    /\ UNCHANGED <<clients, formatLocals, tableLocals>>

(***************************************************************************)
(* UpdateDoc                                                               *)
(***************************************************************************)
\* mode = "append" when the argument is omitted.
Mode(a) == IF "mode" \in DOMAIN a THEN a.mode ELSE "append"


\* UpdateDocRequests with the offsets taken at the body's end itself.
UpdateDocRequestsAtEnd(mode, content, endIndex) ==
    IF mode = "replace"
    THEN (IF endIndex > 1 THEN <<DeleteContentRange(1, endIndex)>> ELSE <<>>)
         \o <<InsertText(1, content)>>
    ELSE <<InsertText(endIndex, <<NL>> \o content)>>

UpdateDocRequests(mode, content, endIndex) ==
    IF mode = "replace"
    THEN (IF endIndex > 1 THEN <<DeleteContentRange(1, endIndex - 1)>> ELSE <<>>)
         \o <<InsertText(1, content)>>
    ELSE <<InsertText(endIndex - 1, <<NL>> \o content)>>

UpdateDocArgs ==
    [documentId : DocumentIds, content : Contents]
    \cup [documentId : DocumentIds, content : Contents,
          mode : {"replace", "append"}]

UpdateDoc ==
    /\ pc = "idle"
    /\ \E a \in UpdateDocArgs, d \in Documents,
          getOk \in BOOLEAN, batchOk \in BOOLEAN :
           IF ~docsClient
           THEN Return("UpdateDoc", a, NoDocument, <<>>,
                       ErrorResult(NotInitialized))
           ELSE IF ~getOk
           THEN Return("UpdateDoc", a, NoDocument,
                       <<Call("documents.get", "failed")>>, ErrorResult(Thrown))
           ELSE Return("UpdateDoc", a, d,
                       <<Call("documents.get", "ok"),
                         BatchUpdate(UpdateDocRequests(Mode(a), a.content,
                                                       BodyEndIndex(d)),
                                     Outcome(batchOk))>>,
                       IF batchOk THEN TextResult("Updated document")
                       ELSE ErrorResult(Thrown))
    /\ UNCHANGED <<clients, formatLocals, tableLocals>>

(***************************************************************************)
(* DeleteDoc                                                               *)
(***************************************************************************)

\* DeleteDoc without the check of driveClient.
DeleteDocUnchecked ==
    /\ pc = "idle"
    /\ \E a \in [documentId : DocumentIds], deleteOk \in BOOLEAN :
           Return("DeleteDoc", a, NoDocument,
                  <<Call("files.delete", Outcome(deleteOk))>>,
                  IF deleteOk THEN TextResult("Deleted document")
                  ELSE ErrorResult(Thrown))
    /\ UNCHANGED <<clients, formatLocals, tableLocals>>

DeleteDoc ==
    /\ pc = "idle"
    /\ \E a \in [documentId : DocumentIds], deleteOk \in BOOLEAN :
           IF ~driveClient
           THEN Return("DeleteDoc", a, NoDocument, <<>>,
                       ErrorResult(NotInitialized))
           ELSE Return("DeleteDoc", a, NoDocument,
                       <<Call("files.delete", Outcome(deleteOk))>>,
                       IF deleteOk THEN TextResult("Deleted document")
                       ELSE ErrorResult(Thrown))
    /\ UNCHANGED <<clients, formatLocals, tableLocals>>

(***************************************************************************)
(* ListDocs (resource): its results carry no isError.                      *)
(***************************************************************************)
ListDocs ==
    /\ pc = "idle"
    /\ \E listOk \in BOOLEAN, files \in {<<>>, <<"doc1">>} :
           IF ~driveClient
           THEN Return("ListDocs", NoArgs, NoDocument, <<>>,
                       TextResult(NotInitialized))
           ELSE Return("ListDocs", NoArgs, NoDocument,
                       <<Call("files.list", Outcome(listOk))>>,
                       IF ~listOk THEN TextResult(Thrown)
                       ELSE IF Len(files) = 0
                       THEN TextResult("Recent Google Docs: No documents found.")
                       ELSE TextResult("Recent Google Docs: listing"))
    /\ UNCHANGED <<clients, formatLocals, tableLocals>>

(***************************************************************************)
(* FormatDoc.  The handler is split at the iterations of its loops: the    *)
(* loop over the instructions, the forEach over the elements and the       *)
(* while loop over the occurrences in one text run.                        *)
(***************************************************************************)
FormatDocArgs == [documentId : DocumentIds, formatting : FormatLists]

\* The instruction and the element the loops are at.
Format == args.formatting[fi]

Element == doc.elements[si]

\* let index = text.indexOf(format.text), for an element with a text run
FirstIndex(elem, target) ==
    IF elem.content # <<>> THEN IndexOf(elem.content, target, 0) ELSE -1


\* NextIndex resuming after the whole match instead of one past its start.
NextIndexAfterMatch(text, target, at) == IndexOf(text, target, at + Len(target))

\* index = text.indexOf(format.text, index + 1)
NextIndex(text, target, at) == IndexOf(text, target, at + 1)

\* occurrences.push({start, end})
Occurrence(elem, target, at) ==
    [start |-> StartIndex(elem) + at,
     end |-> StartIndex(elem) + at + Len(target)]


\* StyleRequests with a field mask that always names the three style fields.
StyleRequestsFullMask(format, occurrence) ==
    LET Defined(f) == f \in DOMAIN format
        fields == SelectSeq(<<"bold", "italic", "underline">>, Defined)
        textStyle == [f \in { fields[i] : i \in 1..Len(fields) } |-> format[f]]
        headingType == IF format.heading = 1 THEN "HEADING_1"
                       ELSE IF format.heading = 2 THEN "HEADING_2"
                       ELSE "HEADING_3"
    IN  (IF Len(fields) > 0
         THEN <<UpdateTextStyle(occurrence.start, occurrence.end,
                                textStyle, <<"bold", "italic", "underline">>)>>
         ELSE <<>>)
        \o (IF Defined("heading") /\ format.heading # 0
            THEN <<UpdateParagraphStyle(occurrence.start, occurrence.end,
                                        headingType)>>
            ELSE <<>>)

\* The requests of one occurrence: the text style with the fields that are
\* not undefined, then the heading.
StyleRequests(format, occurrence) ==
    LET Defined(f) == f \in DOMAIN format
        fields == SelectSeq(<<"bold", "italic", "underline">>, Defined)
        textStyle == [f \in { fields[i] : i \in 1..Len(fields) } |-> format[f]]
        headingType == IF format.heading = 1 THEN "HEADING_1"
                       ELSE IF format.heading = 2 THEN "HEADING_2"
                       ELSE "HEADING_3"
    IN  (IF Len(fields) > 0
         THEN <<UpdateTextStyle(occurrence.start, occurrence.end,
                                textStyle, fields)>>
         ELSE <<>>)
        \o (IF Defined("heading") /\ format.heading # 0
            THEN <<UpdateParagraphStyle(occurrence.start, occurrence.end,
                                        headingType)>>
            ELSE <<>>)

\* for (const occurrence of occurrences) { ... }
RECURSIVE FormatRequests(_, _)
FormatRequests(format, occs) ==
    IF occs = <<>> THEN <<>>
    ELSE StyleRequests(format, Head(occs)) \o FormatRequests(format, Tail(occs))

FormatDoc_Begin ==
    /\ pc = "idle"
    /\ \E a \in FormatDocArgs, d \in Documents, getOk \in BOOLEAN :
           IF ~docsClient
           THEN /\ Return("FormatDoc", a, NoDocument, <<>>,
                          ErrorResult(NotInitialized))
                /\ UNCHANGED formatLocals
           ELSE IF ~getOk
           THEN /\ Return("FormatDoc", a, NoDocument,
                          <<Call("documents.get", "failed")>>,
                          ErrorResult(Thrown))
                /\ UNCHANGED formatLocals
           ELSE /\ pc' = "scan"
                /\ tool' = "FormatDoc"
                /\ args' = a
                /\ doc' = d
                /\ calls' = <<Call("documents.get", "ok")>>
                /\ result' = NoResult
                /\ fi' = 1
                /\ si' = 0
                /\ index' = -1
                /\ occurrences' = <<>>
                /\ requests' = <<>>
    /\ UNCHANGED <<clients, tableLocals>>

\* The forEach moves to the next element and starts its search.
FormatDoc_NextElement ==
    /\ pc = "scan"
    /\ fi <= Len(args.formatting)
    /\ index = -1
    /\ si < Len(doc.elements)
    /\ si' = si + 1
    /\ index' = FirstIndex(doc.elements[si + 1], Format.text)
    /\ UNCHANGED <<clients, pc, tool, args, doc, calls, result, fi,
                   occurrences, requests, tableLocals>>

\* One iteration of while (index !== -1).
FormatDoc_Occurrence ==
    /\ pc = "scan"
    /\ index # -1
    /\ Len(occurrences) < MaxOccurrences
    /\ occurrences' = Append(occurrences, Occurrence(Element, Format.text, index))
    /\ index' = NextIndex(Element.content, Format.text, index)
    /\ UNCHANGED <<clients, pc, tool, args, doc, calls, result, fi, si,
                   requests, tableLocals>>

\* The elements are exhausted: the occurrences of the instruction are
\* formatted and the loop moves to the next instruction.
FormatDoc_Apply ==
    /\ pc = "scan"
    /\ fi <= Len(args.formatting)
    /\ index = -1
    /\ si = Len(doc.elements)
    /\ requests' = requests \o FormatRequests(Format, occurrences)
    /\ fi' = fi + 1
    /\ si' = 0
    /\ occurrences' = <<>>
    /\ UNCHANGED <<clients, pc, tool, args, doc, calls, result, index,
                   tableLocals>>

\* After the last instruction: one batch if there is any request.
FormatDoc_Finish ==
    /\ pc = "scan"
    /\ fi > Len(args.formatting)
    /\ \E batchOk \in BOOLEAN :
           IF Len(requests) > 0
           THEN /\ calls' = Append(calls, BatchUpdate(requests, Outcome(batchOk)))
                /\ result' = IF batchOk THEN TextResult("Applied formatting")
                             ELSE ErrorResult(Thrown)
           ELSE /\ calls' = calls
                /\ result' = TextResult("Applied formatting")
    /\ pc' = "done"
    /\ UNCHANGED <<clients, tool, args, doc, formatLocals, tableLocals>>

(***************************************************************************)
(* ConvertToTable.  The handler is split at its two batchUpdate calls.     *)
(***************************************************************************)
ConvertToTableArgs == [documentId : DocumentIds, tableText : TableTexts]

\* The forEach over the elements that sets tableStartIndex and tableEndIndex:
\* the first text run holding lines[0] fixes the start, and the end is looked
\* up in that same run only, at the first occurrence of the last line.
RECURSIVE LocateTable(_, _, _, _)
LocateTable(elements, lines, start, end) ==
    IF elements = <<>> THEN [start |-> start, end |-> end]
    ELSE LET elem == Head(elements)
             text == elem.content
             at == IndexOf(text, lines[1], 0)
             lastLine == lines[Len(lines)]
             endAt == IndexOf(text, lastLine, 0)
         IN  IF text # <<>> /\ at # -1 /\ start = -1
             THEN LocateTable(Tail(elements), lines, StartIndex(elem) + at,
                              IF endAt # -1
                              THEN StartIndex(elem) + endAt + Len(lastLine)
                              ELSE end)
             ELSE LocateTable(Tail(elements), lines, start, end)

\* The first batch: delete the markdown text, insert the table.
TableRequests(grid, start, end) ==
    (IF end > start THEN <<DeleteContentRange(start, end)>> ELSE <<>>)
    \o <<InsertTable(Len(grid), Len(grid[1]), start)>>

CellBase == 4

RowStride == 5

ColumnStride == 2


\* CellIndex with the row and column strides exchanged.
CellIndexSwapped(start, rowIndex, colIndex) ==
    start + CellBase + (rowIndex * ColumnStride) + (colIndex * RowStride)

\* const cellIndex = tableStartIndex + 4 + (rowIndex * 5) + (colIndex * 2)
CellIndex(start, rowIndex, colIndex) ==
    start + CellBase + (rowIndex * RowStride) + (colIndex * ColumnStride)

\* The inner loop over the cells of one row, from column colIndex on.
RECURSIVE RowCellRequests(_, _, _, _)
RowCellRequests(row, start, rowIndex, colIndex) ==
    IF colIndex >= Len(row) THEN <<>>
    ELSE (IF row[colIndex + 1] # <<>>
          THEN <<InsertText(CellIndex(start, rowIndex, colIndex),
                            row[colIndex + 1])>>
          ELSE <<>>)
         \o RowCellRequests(row, start, rowIndex, colIndex + 1)

\* The outer loop over the rows, from row rowIndex on.
RECURSIVE CellRequests(_, _, _)
CellRequests(grid, start, rowIndex) ==
    IF rowIndex >= Len(grid) THEN <<>>
    ELSE RowCellRequests(grid[rowIndex + 1], start, rowIndex, 0)
         \o CellRequests(grid, start, rowIndex + 1)

ConvertToTable_Begin ==
    /\ pc = "idle"
    /\ \E a \in ConvertToTableArgs, d \in Documents, getOk \in BOOLEAN :
           LET grid == ParseTable(a.tableText)
               found == LocateTable(d.elements, TableLines(a.tableText), -1, -1)
           IN  IF ~docsClient
               THEN /\ Return("ConvertToTable", a, NoDocument, <<>>,
                              ErrorResult(NotInitialized))
                    /\ UNCHANGED tableLocals
               ELSE IF Len(grid) = 0
               THEN /\ Return("ConvertToTable", a, NoDocument, <<>>,
                              ErrorResult("No valid table data found"))
                    /\ rows' = grid
                    /\ UNCHANGED <<tableStartIndex, tableEndIndex>>
               ELSE IF ~getOk
               THEN /\ Return("ConvertToTable", a, NoDocument,
                              <<Call("documents.get", "failed")>>,
                              ErrorResult(Thrown))
                    /\ rows' = grid
                    /\ UNCHANGED <<tableStartIndex, tableEndIndex>>
               ELSE IF found.start = -1
               THEN /\ Return("ConvertToTable", a, d,
                              <<Call("documents.get", "ok")>>,
                              ErrorResult("Could not find table text in document"))
                    /\ rows' = grid
                    /\ tableStartIndex' = found.start
                    /\ tableEndIndex' = found.end
               ELSE /\ pc' = "batch1"
                    /\ tool' = "ConvertToTable"
                    /\ args' = a
                    /\ doc' = d
                    /\ calls' = <<Call("documents.get", "ok"),
                                  BatchUpdate(TableRequests(grid, found.start,
                                                            found.end),
                                              "pending")>>
                    /\ result' = NoResult
                    /\ rows' = grid
                    /\ tableStartIndex' = found.start
                    /\ tableEndIndex' = found.end
    /\ UNCHANGED <<clients, formatLocals>>


\* ConvertToTable_TableInserted without the await: the cell batch is
\* submitted whether or not the first batch succeeded.
ConvertToTable_TableInsertedUnawaited ==
    /\ pc = "batch1"
    /\ \E batchOk \in BOOLEAN :
           LET settled == [calls EXCEPT ![2].status = Outcome(batchOk)]
               cellRequests == CellRequests(rows, tableStartIndex, 0)
           IN  /\ calls' = Append(settled, BatchUpdate(cellRequests, "pending"))
               /\ result' = result
               /\ pc' = "batch2"
    /\ UNCHANGED <<clients, tool, args, doc, formatLocals, tableLocals>>

\* The first batchUpdate returns or throws; on return the cell batch is built
\* and, if it holds a request, submitted.
ConvertToTable_TableInserted ==
    /\ pc = "batch1"
    /\ \E batchOk \in BOOLEAN :
           LET settled == [calls EXCEPT ![2].status = Outcome(batchOk)]
               cellRequests == CellRequests(rows, tableStartIndex, 0)
           IN  IF ~batchOk
               THEN /\ calls' = settled
                    /\ result' = ErrorResult(Thrown)
                    /\ pc' = "done"
               ELSE IF Len(cellRequests) > 0
               THEN /\ calls' = Append(settled, BatchUpdate(cellRequests, "pending"))
                    /\ result' = result
                    /\ pc' = "batch2"
               ELSE /\ calls' = settled
                    /\ result' = TextResult("Converted markdown table")
                    /\ pc' = "done"
    /\ UNCHANGED <<clients, tool, args, doc, formatLocals, tableLocals>>

\* The second batchUpdate returns or throws.
ConvertToTable_CellsInserted ==
    /\ pc = "batch2"
    /\ \E batchOk \in BOOLEAN :
           /\ calls' = [calls EXCEPT ![3].status = Outcome(batchOk)]
           /\ result' = IF batchOk THEN TextResult("Converted markdown table")
                        ELSE ErrorResult(Thrown)
    /\ pc' = "done"
    /\ UNCHANGED <<clients, tool, args, doc, formatLocals, tableLocals>>

(***************************************************************************)
(* The server takes the next request: nothing of an invocation outlives it *)
(* but the client handles.                                                 *)
(***************************************************************************)
NextRequest ==
    /\ pc = "done"
    /\ pc' = "idle"
    /\ tool' = "none"
    /\ args' = NoArgs
    /\ doc' = NoDocument
    /\ calls' = <<>>
    /\ result' = NoResult
    /\ fi' = 0
    /\ si' = 0
    /\ index' = -1
    /\ occurrences' = <<>>
    /\ requests' = <<>>
    /\ rows' = <<>>
    /\ tableStartIndex' = -1
    /\ tableEndIndex' = -1
    /\ UNCHANGED clients

Next ==
    \/ CreateDoc
    \/ UpdateDoc
    \/ DeleteDoc
    \/ ListDocs
    \/ FormatDoc_Begin
    \/ FormatDoc_NextElement
    \/ FormatDoc_Occurrence
    \/ FormatDoc_Apply
    \/ FormatDoc_Finish
    \/ ConvertToTable_Begin
    \/ ConvertToTable_TableInserted
    \/ ConvertToTable_CellsInserted
    \/ NextRequest

Spec == Init /\ [][Next]_vars

(***************************************************************************)
(* Properties.                                                             *)
(***************************************************************************)
\* The batchUpdate calls of the invocation, in order.
IsBatchUpdate(c) == c.api = "documents.batchUpdate"

Batches == SelectSeq(calls, IsBatchUpdate)

\* The invocation has read its document.
GotDocument == Len(calls) >= 1 /\ calls[1] = Call("documents.get", "ok")

HasKind(reqs, kind) == \E i \in 1..Len(reqs) : reqs[i].kind = kind

\* C1: UpdateDoc against a document whose body ends at E > 1 submits exactly
\* one batch: in replace mode a DeleteRange [1, E-1) followed by an InsertText
\* of the content at 1; in append mode, and when mode is omitted, a single
\* InsertText at E-1 of a newline followed by the content, and no delete.
UpdateDocBatch ==
    (pc = "done" /\ tool = "UpdateDoc" /\ GotDocument /\ doc.endIndex > 1) =>
        LET E == doc.endIndex
            replace == "mode" \in DOMAIN args /\ args.mode = "replace"
        IN  /\ Len(Batches) = 1
            /\ replace =>
                   Batches[1].requests =
                       << [kind |-> "deleteContentRange",
                           startIndex |-> 1, endIndex |-> E - 1],
                          [kind |-> "insertText", index |-> 1,
                           text |-> args.content] >>
            /\ ~replace =>
                   /\ Batches[1].requests =
                          << [kind |-> "insertText", index |-> E - 1,
                              text |-> <<NL>> \o args.content] >>
                   /\ ~HasKind(Batches[1].requests, "deleteContentRange")

\* UpdateDoc replaced the body of a document that ends beyond offset 2.
UpdateDocReplaced ==
    /\ pc = "done"
    /\ tool = "UpdateDoc"
    /\ GotDocument
    /\ doc.endIndex > 2
    /\ "mode" \in DOMAIN args
    /\ args.mode = "replace"
    /\ args.content # <<>>
    /\ Len(Batches) = 1

\* C3: if the client handles were never established, every tool or resource
\* call returns the not-initialized error to the user and makes no call to
\* the document or drive service.
UninitializedClientFailsClosed ==
    (~docsClient /\ ~driveClient) =>
        /\ calls = <<>>
        /\ pc \in {"idle", "done"}
        /\ pc = "done" =>
               /\ result.text \in {NotInitialized, NotInitializedCreate}
               /\ tool # "ListDocs" =>
                      ("isError" \in DOMAIN result /\ result.isError)

\* ConvertToTable returned on uninitialized clients.
UninitializedConvertToTable ==
    /\ ~docsClient
    /\ ~driveClient
    /\ pc = "done"
    /\ tool = "ConvertToTable"
    /\ result = ErrorResult(NotInitialized)

\* ConvertToTable has a non-empty grid and has located tableStartIndex: it
\* has submitted its first batch.
TableLocated ==
    /\ tool = "ConvertToTable"
    /\ GotDocument
    /\ Len(rows) > 0
    /\ tableStartIndex # -1

\* C5: with a non-empty grid and a located tableStart, the first batch of
\* ConvertToTable is a DeleteRange over [tableStart, tableEnd) iff
\* tableEnd > tableStart, followed by exactly one InsertTable at tableStart
\* with rows = number of grid rows and columns = length of the first grid row;
\* it is submitted and completed before the batch of cell InsertTexts is
\* submitted, and the cell batch is never submitted if the first batch fails.
TableBatchBeforeCellBatch ==
    TableLocated =>
        /\ Len(calls) >= 2
        /\ IsBatchUpdate(calls[2])
        /\ LET first == calls[2].requests
               insert == [kind |-> "insertTable", rows |-> Len(rows),
                          columns |-> Len(rows[1]), index |-> tableStartIndex]
               delete == [kind |-> "deleteContentRange",
                          startIndex |-> tableStartIndex,
                          endIndex |-> tableEndIndex]
           IN  /\ HasKind(first, "deleteContentRange")
                      <=> tableEndIndex > tableStartIndex
               /\ tableEndIndex > tableStartIndex => first = <<delete, insert>>
               /\ ~(tableEndIndex > tableStartIndex) => first = <<insert>>
        /\ pc = "batch1" <=> calls[2].status = "pending"
        /\ Len(calls) <= 3
        /\ Len(calls) = 3 =>
               /\ calls[2].status = "ok"
               /\ IsBatchUpdate(calls[3])
               /\ \A i \in 1..Len(calls[3].requests) :
                      calls[3].requests[i].kind = "insertText"
        /\ calls[2].status = "failed" =>
               (Len(calls) = 2 /\ pc = "done" /\ result = ErrorResult(Thrown))

\* Both batches of a conversion that deletes the markdown text were
\* submitted and the handler returned.
TableConverted ==
    /\ TableLocated
    /\ pc = "done"
    /\ Len(calls) = 3
    /\ tableEndIndex > tableStartIndex
    /\ Len(calls[2].requests) = 2
    /\ calls[3].status = "ok"

\* The number of cells in the first n rows of the grid.
RECURSIVE CellsBefore(_, _)
CellsBefore(grid, n) ==
    IF n = 0 THEN 0 ELSE CellsBefore(grid, n - 1) + Len(grid[n])

\* C6: the second batch of ConvertToTable holds exactly one InsertText per
\* non-empty grid cell, in row-major order, the cell at row r and column c
\* (0-indexed) inserted with its text at tableStart + 4 + r*5 + c*2; for
\* '| A | B |\n|---|---|\n| 1 | 2 |' the grid is [[A,B],[1,2]] and the batch
\* has exactly 4 InsertTexts, at tableStart + 4, + 6, + 9 and + 11.
CellBatchOffsets ==
    (TableLocated /\ Len(calls) = 3) =>
        LET cells == calls[3].requests
        IN  /\ Len(cells) = CellsBefore(rows, Len(rows))
            /\ \A r \in 0..(Len(rows) - 1) :
                   \A c \in 0..(Len(rows[r + 1]) - 1) :
                       /\ rows[r + 1][c + 1] # <<>>
                       /\ cells[CellsBefore(rows, r) + c + 1] =
                              [kind |-> "insertText",
                               index |-> tableStartIndex + 4 + r * 5 + c * 2,
                               text |-> rows[r + 1][c + 1]]
            /\ args.tableText = ExampleTable =>
                   /\ rows = << << <<"A">>, <<"B">> >>, << <<"1">>, <<"2">> >> >>
                   /\ Len(cells) = 4
                   /\ [i \in 1..4 |-> cells[i].index] =
                          << tableStartIndex + 4, tableStartIndex + 6,
                             tableStartIndex + 9, tableStartIndex + 11 >>

\* The cell batch of the example table was submitted.
ExampleCellBatch ==
    /\ TableLocated
    /\ Len(calls) = 3
    /\ args.tableText = ExampleTable
    /\ Len(calls[3].requests) = 4

\* The positions (0-based, ascending) at which target occurs in text,
\* occurrences that overlap each other included.
MatchPositions(text, target) ==
    LET n == Len(text)
        m == Len(target)
        Matches(i) == SubSeq(text, i + 1, i + m) = target
    IN  SelectSeq([k \in 1..(n - m + 1) |-> k - 1], Matches)

\* One range per position of every text run at which target occurs, the runs
\* in document order.
RECURSIVE MatchRanges(_, _)
MatchRanges(elements, target) ==
    IF elements = <<>> THEN <<>>
    ELSE LET span == Head(elements)
             at == MatchPositions(span.content, target)
         IN  [k \in 1..Len(at) |->
                 [start |-> span.startIndex + at[k],
                  end |-> span.startIndex + at[k] + Len(target)]]
             \o MatchRanges(Tail(elements), target)

\* The scan of the elements for the current instruction is complete.
ScanComplete ==
    /\ tool = "FormatDoc"
    /\ pc = "scan"
    /\ fi <= Len(args.formatting)
    /\ index = -1
    /\ si = Len(doc.elements)

\* C8: for a non-empty target, the occurrence scan of FormatDoc returns
\* exactly one range [span.startOffset + i, span.startOffset + i + len) for
\* every position i of every text span at which the target occurs, overlapping
\* occurrences included, ordered by span and left to right within a span; for
\* span 'ababab' and target 'aba' it returns two matches, at 0 and 2.
OccurrenceScanComplete ==
    (ScanComplete /\ Format.text # <<>>) =>
        /\ occurrences = MatchRanges(doc.elements, Format.text)
        /\ (Format.text = Aba /\ Len(doc.elements) = 1
            /\ doc.elements[1].content = Ababab \o <<NL>>) =>
               occurrences =
                   << [start |-> doc.elements[1].startIndex + 0,
                       end |-> doc.elements[1].startIndex + 0 + 3],
                      [start |-> doc.elements[1].startIndex + 2,
                       end |-> doc.elements[1].startIndex + 2 + 3] >>

\* The scan of 'ababab' for 'aba' is complete with its overlapping matches.
OverlappingScan ==
    /\ ScanComplete
    /\ Format.text = Aba
    /\ Len(doc.elements) = 1
    /\ doc.elements[1].content = Ababab \o <<NL>>
    /\ Len(occurrences) = 2

\* The requests an instruction yields for one located occurrence: an
\* UpdateTextStyle iff one of bold/italic/underline is set, naming exactly
\* the set fields, and an UpdateParagraphStyle iff heading is 1, 2 or 3.
ClaimedStyleRequests(format, range) ==
    LET set == {"bold", "italic", "underline"} \cap DOMAIN format
        named == [h \in 1..3 |-> <<"HEADING_1", "HEADING_2", "HEADING_3">>[h]]
    IN  (IF set # {}
         THEN << [kind |-> "updateTextStyle",
                  startIndex |-> range.start, endIndex |-> range.end,
                  textStyle |-> [f \in set |-> format[f]],
                  fields |-> set] >>
         ELSE <<>>)
        \o (IF "heading" \in DOMAIN format /\ format.heading \in 1..3
            THEN << [kind |-> "updateParagraphStyle",
                     startIndex |-> range.start, endIndex |-> range.end,
                     namedStyleType |-> named[format.heading],
                     fields |-> {"namedStyleType"}] >>
            ELSE <<>>)

RECURSIVE ClaimedRangeRequests(_, _)
ClaimedRangeRequests(format, ranges) ==
    IF ranges = <<>> THEN <<>>
    ELSE ClaimedStyleRequests(format, Head(ranges))
         \o ClaimedRangeRequests(format, Tail(ranges))

\* The requests of the first n instructions against the document d.
RECURSIVE ClaimedRequests(_, _, _)
ClaimedRequests(formatting, n, d) ==
    IF n = 0 THEN <<>>
    ELSE ClaimedRequests(formatting, n - 1, d)
         \o ClaimedRangeRequests(formatting[n],
                                 MatchRanges(d.elements, formatting[n].text))

\* A request with its field mask as the set of the names in it; a mask that
\* names a field twice has no such form.
MaskAsSet(req) ==
    LET names == { req.fields[i] : i \in 1..Len(req.fields) }
    IN  IF Cardinality(names) = Len(req.fields)
        THEN [req EXCEPT !.fields = names]
        ELSE [req EXCEPT !.fields = {"duplicated"}]

HeadingOnlyFormatted ==
    /\ tool = "FormatDoc"
    /\ pc = "done"
    /\ args.formatting = << [text |-> Intro, heading |-> 2] >>
    /\ Len(MatchRanges(doc.elements, Intro)) = 1
    /\ Len(Batches) = 1

IsError(r) == "isError" \in DOMAIN r /\ r.isError

\* C2: whenever the text of a formatting instruction (FormatDoc) or the first
\* or the last line of tableText (ConvertToTable) cannot be located in the
\* document, the tool call returns an error result and submits no edit batch.
\* (Stated for the non-empty texts: the empty text is the case of C10.)
NotFoundIsReported ==
    /\ (pc = "done" /\ tool = "FormatDoc" /\ GotDocument
        /\ \E k \in 1..Len(args.formatting) :
               /\ args.formatting[k].text # <<>>
               /\ MatchRanges(doc.elements, args.formatting[k].text) = <<>>) =>
           (IsError(result) /\ Batches = <<>>)
    /\ (pc = "done" /\ tool = "ConvertToTable" /\ GotDocument
        /\ LET lines == TableLines(args.tableText)
           IN  \/ MatchRanges(doc.elements, lines[1]) = <<>>
               \/ MatchRanges(doc.elements, lines[Len(lines)]) = <<>>) =>
           (IsError(result) /\ Batches = <<>>)

\* A separator line as the parser's contract describes it: composed only of
\* '|', '-', ':' and whitespace.
ClaimedSeparator(line) ==
    /\ line # <<>>
    /\ \A i \in 1..Len(line) : line[i] \in {"|", "-", ":"} \cup Whitespace

\* A table-row line: not a separator line, with at least one non-blank cell.
\* Every other line (a blank one) is neither.
ClaimedTableRow(line) == ~ClaimedSeparator(line) /\ Cells(line) # <<>>

RECURSIVE CountTableRows(_)
CountTableRows(lines) ==
    IF lines = <<>> THEN 0
    ELSE (IF ClaimedTableRow(Head(lines)) THEN 1 ELSE 0)
         + CountTableRows(Tail(lines))

\* C4: for markdown text made of N table-row lines, M separator lines and K
\* other lines in any interleaving, the parser returns exactly N rows and
\* none of the separator lines appears as a row (every row holds a character
\* that no separator line holds).
ParserReturnsTableRows ==
    (tool = "ConvertToTable" /\ docsClient) =>
        /\ Len(rows) = CountTableRows(TableLines(args.tableText))
        /\ \A r \in 1..Len(rows) :
               \E c \in 1..Len(rows[r]) :
                   \E i \in 1..Len(rows[r][c]) :
                       rows[r][c][i] \notin {"|", "-", ":"} \cup Whitespace

\* C9: if the first occurrence of the table's first line in the document
\* starts a verbatim occurrence of the whole trimmed tableText inside one
\* text span, the DeleteRange covers exactly that occurrence, from the first
\* line's first character to just after the last line's last character.
DeleteRangeCoversTable ==
    TableLocated =>
        LET table == Trim(args.tableText)
            firstLine == MatchRanges(doc.elements, TableLines(args.tableText)[1])
            whole == MatchRanges(doc.elements, table)
        IN  (\E k \in 1..Len(whole) : whole[k].start = firstLine[1].start) =>
                calls[2].requests[1] =
                    [kind |-> "deleteContentRange",
                     startIndex |-> firstLine[1].start,
                     endIndex |-> firstLine[1].start + Len(table)]

\* C10: every FormatDoc invocation runs to completion, for every document and
\* every list of instructions the schema accepts, the empty text included:
\* the occurrence search over a text span terminates, each iteration of it
\* either ending the search of the span or resuming at a later position.
SearchLoopAdvances ==
    [][(pc = "scan" /\ index # -1 /\ pc' = "scan" /\ fi' = fi /\ si' = si) =>
           (index' = -1 \/ index' > index)]_vars

\* A request that carries an offset range.
HasRange(req) ==
    req.kind \in {"deleteContentRange", "updateTextStyle", "updateParagraphStyle"}

\* C11: every offset range carried by a request that any tool submits (the
\* DeleteRange of UpdateDoc's replace mode, the DeleteRange of ConvertToTable,
\* the ranges of FormatDoc's UpdateTextStyle and UpdateParagraphStyle) is a
\* non-empty half-open range, start < end, for every document, a document
\* whose body ends at offset 2 included.
SubmittedRangesNonEmpty ==
    \A b \in 1..Len(Batches) :
        \A i \in 1..Len(Batches[b].requests) :
            HasRange(Batches[b].requests[i]) =>
                Batches[b].requests[i].startIndex
                    < Batches[b].requests[i].endIndex

====
